---- MODULE Spec2Model ----
(***************************************************************************)
(* A model of three kernels of the columnar array library:                 *)
(*   - the foreign-handle export / import of UnionArray                    *)
(*     (src/array/union/ffi.rs),                                           *)
(*   - the division kernel family                                          *)
(*     (src/compute/arithmetics/basic/div.rs),                             *)
(*   - the temporal extraction kernels hour / year                         *)
(*     (src/compute/temporal.rs).                                          *)
(* Each subsystem has its own specification (SpecUnion, SpecDiv,           *)
(* SpecTemporal); the variables of the other subsystems stay idle.         *)
(***************************************************************************)
EXTENDS Integers, Sequences, FiniteSets, TLC

VARIABLES
    x,        \* union: the native UnionArray currently held
    orig,     \* union: the array held when the first export happened (history)
    handle,   \* union: the foreign handle in flight, if any
    out,      \* union: outcome of the last try_from_ffi, with what it read
    rounds,   \* union: number of completed export-then-import round trips
    lhs,      \* div: left operand (a PrimitiveArray)
    arg,      \* div: right operand, an array or a scalar
    dres,     \* div: outcome of the last division kernel call
    tarr,     \* temporal: the input array
    tres      \* temporal: outcome of the last hour / year call

vars == <<x, orig, handle, out, rounds, lhs, arg, dres, tarr, tres>>
unionVars == <<x, orig, handle, out, rounds>>
divVars == <<lhs, arg, dres>>
temporalVars == <<tarr, tres>>

(***************************************************************************)
(* Bounds of the model.                                                    *)
(***************************************************************************)
MaxN == 3          \* longest type-id / dense-offset allocation of a native union
MaxFields == 2     \* most fields a union logical type declares
MaxChildLen == 2   \* longest child array a foreign provider's handle carries
MaxRounds == 2     \* most export-then-import round trips in one behaviour
MaxForeignLen == 1 \* largest length / offset a foreign provider's handle reports

NoneV == [some |-> FALSE]
Some(v) == [some |-> TRUE, v |-> v]

Max(a, b) == IF a >= b THEN a ELSE b

(***************************************************************************)
(* Buffer<T>: a view (off, len) into a shared allocation mem.              *)
(***************************************************************************)
\* Buffer::slice: a sub-range view sharing the same allocation.
BufferSlice(b, o, n) == [mem |-> b.mem, off |-> b.off + o, len |-> n]

\* Buffer::as_ptr: the address of the first element of the view.
as_ptr(b) == [mem |-> b.mem, at |-> b.off]

\* The elements a view shows, slot 0 first.
BufferValues(b) == [i \in 1..b.len |-> b.mem[b.off + i]]

\* A buffer owning a whole fresh allocation.
BufferFrom(s) == [mem |-> s, off |-> 0, len |-> Len(s)]

(***************************************************************************)
(* UnionArray.                                                             *)
(***************************************************************************)
is_sparse(data_type) == data_type.mode = "sparse"

\* The declared fields of a union logical type, as field indices.
get_fields(data_type) == 1..data_type.nfields

\* UnionArray::from_data: the parts are stored as given; the new array's
\* logical offset is zero (the constructor takes no offset).
from_data(data_type, types, fields, offsets) ==
    [data_type |-> data_type, types |-> types, fields |-> fields,
     offsets |-> offsets, offset |-> 0]

\* Array::len of a union: the length of its type-id buffer.
UnionLen(u) == u.types.len

\* UnionArray::slice: only the type-id buffer is re-sliced; the dense
\* offsets and the children are kept, and the logical offset is advanced.
UnionSlice(u, o, n) ==
    [u EXCEPT !.types = BufferSlice(u.types, o, n), !.offset = u.offset + o]

(***************************************************************************)
(* impl ToFfi for UnionArray.                                              *)
(***************************************************************************)
ToFfi_buffers(self) ==
    IF self.offsets.some
    THEN <<NoneV, Some(as_ptr(self.types)), Some(as_ptr(self.offsets.v))>>
    ELSE <<NoneV, Some(as_ptr(self.types))>>

ToFfi_offset(self) == self.offset

ToFfi_children(self) == self.fields

\* The handle the exporter builds from a live array: the three ToFfi parts,
\* the array's length and its field descriptor.  A child is exported as a
\* handle whose import yields that child.
ExportHandle(self) ==
    [data_type |-> self.data_type,
     len |-> UnionLen(self),
     offset |-> ToFfi_offset(self),
     buffers |-> ToFfi_buffers(self),
     children |-> [i \in 1..Len(ToFfi_children(self)) |->
                      [ok |-> TRUE, arr |-> ToFfi_children(self)[i]]]]

(***************************************************************************)
(* The import-side handle capability (ffi::ArrowArrayRef).                 *)
(***************************************************************************)
\* Number of elements buffer(index) needs that lie past the end of the
\* allocation its pointer addresses (0 when the pointer is absent).
Missing(h, index) ==
    IF index + 2 > Len(h.buffers) THEN 0
    ELSE IF ~h.buffers[index + 2].some THEN 0
    ELSE LET p == h.buffers[index + 2].v
         IN Max(0, (h.offset + h.len) - (Len(p.mem) - p.at))

\* ArrowArrayRef::buffer::<T>(index): data buffer `index` (the validity slot
\* is skipped) as a view of offset + length elements starting at the raw
\* pointer.  Elements past the end of the allocation are whatever the memory
\* holds: the sequence g.
HandleBuffer(h, index, g) ==
    IF index + 2 > Len(h.buffers) THEN [ok |-> FALSE]
    ELSE IF ~h.buffers[index + 2].some THEN [ok |-> FALSE]
    ELSE LET p == h.buffers[index + 2].v
         IN [ok |-> TRUE,
             v |-> [mem |-> p.mem \o g, off |-> p.at, len |-> h.offset + h.len]]

\* ArrowArrayRef::child(index) followed by ffi::try_from(child).
HandleChild(h, index) ==
    IF index > Len(h.children) THEN [ok |-> FALSE]
    ELSE IF ~h.children[index].ok THEN [ok |-> FALSE]
    ELSE [ok |-> TRUE, v |-> h.children[index].arr]

(***************************************************************************)
(* impl FromFfi for UnionArray.                                            *)
(***************************************************************************)
\* The declared field indices whose child the handle cannot supply or whose
\* recursive import fails.
BadChildren(array) ==
    {i \in get_fields(array.data_type) : ~HandleChild(array, i).ok}

\* The children the collect() loop asks the handle for: every declared field
\* up to and including the first one that fails.
ChildrenAsked(array) ==
    {i \in get_fields(array.data_type) : \A j \in BadChildren(array) : i <= j}

\* try_from_ffi with the dense offsets re-sliced like the type ids.
try_from_ffi_slicing_offsets(array, gt, go) ==
    LET types0 == HandleBuffer(array, 0, gt)
        offsets0 == IF is_sparse(array.data_type) THEN [ok |-> TRUE, v |-> NoneV]
                    ELSE LET b == HandleBuffer(array, 1, go)
                         IN IF b.ok THEN [ok |-> TRUE, v |-> Some(b.v)]
                            ELSE [ok |-> FALSE]
    IN IF ~types0.ok
       THEN [kind |-> "err", at |-> "types", buffersRead |-> {0}, childrenAsked |-> {}]
       ELSE IF ~offsets0.ok
       THEN [kind |-> "err", at |-> "offsets", buffersRead |-> {0, 1}, childrenAsked |-> {}]
       ELSE IF BadChildren(array) # {}
       THEN [kind |-> "err", at |-> "child",
             buffersRead |-> IF is_sparse(array.data_type) THEN {0} ELSE {0, 1},
             childrenAsked |-> ChildrenAsked(array)]
       ELSE LET children == [i \in get_fields(array.data_type) |-> HandleChild(array, i).v]
                types == IF array.offset > 0
                         THEN BufferSlice(types0.v, array.offset, array.len)
                         ELSE types0.v
                offsets == IF array.offset > 0 /\ offsets0.v.some
                           THEN Some(BufferSlice(offsets0.v.v, array.offset, array.len))
                           ELSE offsets0.v
            IN [kind |-> "ok",
                buffersRead |-> IF is_sparse(array.data_type) THEN {0} ELSE {0, 1},
                childrenAsked |-> ChildrenAsked(array),
                deliveredTypes |-> types0.v,
                deliveredOffsets |-> offsets0.v,
                array |-> from_data(array.data_type, types, children, offsets)]

\* try_from_ffi reading buffer 1 whatever the mode.
try_from_ffi_always_offsets(array, gt, go) ==
    LET types0 == HandleBuffer(array, 0, gt)
        offsets0 == LET b == HandleBuffer(array, 1, go)
                    IN IF b.ok THEN [ok |-> TRUE, v |-> Some(b.v)] ELSE [ok |-> FALSE]
    IN IF ~types0.ok
       THEN [kind |-> "err", at |-> "types", buffersRead |-> {0}, childrenAsked |-> {}]
       ELSE IF ~offsets0.ok
       THEN [kind |-> "err", at |-> "offsets", buffersRead |-> {0, 1}, childrenAsked |-> {}]
       ELSE IF BadChildren(array) # {}
       THEN [kind |-> "err", at |-> "child", buffersRead |-> {0, 1},
             childrenAsked |-> ChildrenAsked(array)]
       ELSE LET children == [i \in get_fields(array.data_type) |-> HandleChild(array, i).v]
                types == IF array.offset > 0
                         THEN BufferSlice(types0.v, array.offset, array.len)
                         ELSE types0.v
            IN [kind |-> "ok", buffersRead |-> {0, 1},
                childrenAsked |-> ChildrenAsked(array),
                deliveredTypes |-> types0.v,
                deliveredOffsets |-> offsets0.v,
                array |-> from_data(array.data_type, types, children,
                                    IF is_sparse(array.data_type) THEN NoneV ELSE offsets0.v)]

\* UnionArray::try_from_ffi.  gt and go are the contents of the memory past
\* the end of the type-id and dense-offset allocations, should the views the
\* handle delivers reach that far.
try_from_ffi(array, gt, go) ==
    LET data_type == array.data_type
        fields == get_fields(data_type)
        types0 == HandleBuffer(array, 0, gt)
        offsets0 == IF is_sparse(data_type) THEN [ok |-> TRUE, v |-> NoneV]
                    ELSE LET b == HandleBuffer(array, 1, go)
                         IN IF b.ok THEN [ok |-> TRUE, v |-> Some(b.v)]
                            ELSE [ok |-> FALSE]
        length == array.len
        offset == array.offset
    IN IF ~types0.ok
       THEN [kind |-> "err", at |-> "types", buffersRead |-> {0}, childrenAsked |-> {}]
       ELSE IF ~offsets0.ok
       THEN [kind |-> "err", at |-> "offsets", buffersRead |-> {0, 1}, childrenAsked |-> {}]
       ELSE IF BadChildren(array) # {}
       THEN [kind |-> "err", at |-> "child",
             buffersRead |-> IF is_sparse(data_type) THEN {0} ELSE {0, 1},
             childrenAsked |-> ChildrenAsked(array)]
       ELSE LET children == [i \in fields |-> HandleChild(array, i).v]
                types == IF offset > 0 THEN BufferSlice(types0.v, offset, length)
                         ELSE types0.v
            IN [kind |-> "ok",
                buffersRead |-> IF is_sparse(data_type) THEN {0} ELSE {0, 1},
                childrenAsked |-> ChildrenAsked(array),
                deliveredTypes |-> types0.v,
                deliveredOffsets |-> offsets0.v,
                array |-> from_data(data_type, types, children, offsets0.v)]

(***************************************************************************)
(* The arrays and handles the union state machine starts from.             *)
(***************************************************************************)
DataTypes == [mode : {"sparse", "dense"}, nfields : 1..MaxFields]

\* Number of slots before slot i (1-based) that carry the type id of slot i.
EarlierSame(types, i) == Cardinality({j \in 1..(i - 1) : types[j] = types[i]})

\* Number of slots that select field f (type id f - 1).
RowsOf(types, f) == Cardinality({j \in 1..Len(types) : types[j] = f - 1})

\* A sparse union built by from_data: every child is as long as the union.
SparseUnion(dt, types) ==
    from_data(dt, BufferFrom(types),
              [f \in 1..dt.nfields |-> [field |-> f, len |-> Len(types)]],
              NoneV)

\* A dense union built by from_data: each child holds the rows of the slots
\* that select it, in slot order.
DenseUnion(dt, types) ==
    from_data(dt, BufferFrom(types),
              [f \in 1..dt.nfields |-> [field |-> f, len |-> RowsOf(types, f)]],
              Some(BufferFrom([i \in 1..Len(types) |-> EarlierSame(types, i)])))

WellFormedUnions ==
    {IF is_sparse(dt) THEN SparseUnion(dt, types) ELSE DenseUnion(dt, types) :
        <<dt, types>> \in UNION {{<<d, t>> : t \in [1..n -> 0..(d.nfields - 1)]} :
                                  <<d, n>> \in DataTypes \X (0..MaxN)}}

\* What the memory past the end of an allocation may hold.
Garbage == {0, 1}

\* Handles of a foreign provider.  Nothing constrains them: a buffer pointer
\* may be null or missing, a child may be missing or fail to import, the
\* dense offsets need not address a row of the child.
ForeignPtrs(k, values) ==
    {NoneV} \cup {Some([mem |-> [i \in 1..k |-> v], at |-> 0]) : v \in values}

ForeignBuffers(k, nf) ==
    {<<NoneV>>}
    \cup {<<NoneV, t>> : t \in ForeignPtrs(k, 0..(nf - 1))}
    \cup {<<NoneV, t, o>> : <<t, o>> \in ForeignPtrs(k, 0..(nf - 1))
                                         \X ForeignPtrs(k, 0..MaxChildLen)}

ForeignChildren ==
    {[i \in 1..c |-> [ok |-> i # bad, arr |-> [field |-> i, len |-> l]]] :
        <<c, l, bad>> \in (0..MaxFields) \X (0..MaxChildLen) \X (0..MaxFields)}

ForeignHandles ==
    UNION {{[data_type |-> dt, len |-> n, offset |-> o, buffers |-> bs, children |-> cs] :
              <<bs, cs>> \in ForeignBuffers(n + o, dt.nfields) \X ForeignChildren} :
           <<dt, n, o>> \in DataTypes \X (0..MaxForeignLen) \X (0..MaxForeignLen)}

(***************************************************************************)
(* The union state machine.                                                *)
(***************************************************************************)
IdleDiv == lhs = NoneV /\ arg = NoneV /\ dres = [kind |-> "none", op |-> "none"]
IdleTemporal == tarr = NoneV /\ tres = [kind |-> "none", op |-> "none"]
IdleUnion ==
    x = NoneV /\ orig = NoneV /\ handle = NoneV /\ out = [kind |-> "none"] /\ rounds = 0

\* Either a well-formed native array is held, or none yet (a foreign handle
\* is then awaited).
InitUnion ==
    /\ x \in WellFormedUnions \cup {NoneV}
    /\ orig = NoneV
    /\ handle = NoneV
    /\ out = [kind |-> "none"]
    /\ rounds = 0
    /\ IdleDiv
    /\ IdleTemporal

\* x.slice(o, n) on the array held, before it is first exported.
Slice(o, n) ==
    /\ x # NoneV
    /\ ~handle.some /\ ~orig.some /\ out.kind = "none"
    /\ o + n <= UnionLen(x)
    /\ <<o, n>> # <<0, UnionLen(x)>>
    /\ x' = UnionSlice(x, o, n)
    /\ UNCHANGED <<orig, handle, out, rounds, divVars, temporalVars>>

\* The exporter flattens the array held into a handle.
Export ==
    /\ x # NoneV
    /\ ~handle.some
    /\ out.kind \in {"none", "ok"}
    /\ out.kind = "ok" => ~out.foreign
    /\ rounds < MaxRounds
    /\ handle' = Some(ExportHandle(x))
    /\ orig' = IF orig.some THEN orig ELSE Some(x)
    /\ UNCHANGED <<x, out, rounds, divVars, temporalVars>>

\* A handle arrives from a foreign provider.
Receive(h) ==
    /\ x = NoneV
    /\ ~handle.some /\ out.kind = "none"
    /\ handle' = Some(h)
    /\ UNCHANGED <<x, orig, out, rounds, divVars, temporalVars>>

\* UnionArray::try_from_ffi consumes the handle in flight.
Import ==
    /\ handle.some
    /\ \E gt \in [1..Missing(handle.v, 0) -> Garbage],
          go \in [1..Missing(handle.v, 1) -> Garbage] :
        LET r == try_from_ffi(handle.v, gt, go)
        IN /\ out' = r @@ [h |-> handle.v, pre |-> x, foreign |-> ~orig.some]
           /\ x' = IF r.kind = "ok" THEN r.array ELSE x
           /\ rounds' = IF r.kind = "ok" /\ orig.some THEN rounds + 1 ELSE rounds
    /\ handle' = NoneV
    /\ UNCHANGED <<orig, divVars, temporalVars>>

NextUnion ==
    \/ \E o \in 0..MaxN, n \in 0..MaxN : Slice(o, n)
    \/ Export
    \/ \E h \in ForeignHandles : Receive(h)
    \/ Import

SpecUnion == InitUnion /\ [][NextUnion]_vars

(***************************************************************************)
(* Properties of the union export / import.                                *)
(***************************************************************************)
\* The dense offset stored for slot i (1-based) of a dense union.
DenseOffsetAt(u, i) == u.offsets.v.mem[u.offsets.v.off + i]

\* Array equality of two unions: logical type, length, type id per slot,
\* dense offset per slot when dense, children.
UnionEq(a, b) ==
    /\ a.data_type = b.data_type
    /\ UnionLen(a) = UnionLen(b)
    /\ BufferValues(a.types) = BufferValues(b.types)
    /\ a.offsets.some = b.offsets.some
    /\ a.offsets.some =>
          \A i \in 1..UnionLen(a) : DenseOffsetAt(a, i) = DenseOffsetAt(b, i)
    /\ a.fields = b.fields

\* An import of a handle this program exported has just completed.
RoundTripped == orig.some /\ out.kind # "none" /\ ~handle.some

\* C1: after any number of export-then-import round trips of a well-formed
\* union (sparse or dense, sliced or not) the array held equals the array
\* first exported.
RoundTripLaw == RoundTripped => (out.kind = "ok" /\ UnionEq(x, orig.v))

\* The round-trip law restricted to arrays whose logical offset is zero.
RoundTripLawUnsliced ==
    (RoundTripped /\ orig.v.offset = 0) => (out.kind = "ok" /\ UnionEq(x, orig.v))

\* The union layout invariants of an array imported from handle h.
LayoutInvariants(u, h) ==
    /\ u.types.len = h.len
    /\ u.offsets.some <=> ~is_sparse(u.data_type)
    /\ u.offsets.some => u.offsets.v.len = h.len
    /\ Len(u.fields) = u.data_type.nfields
    /\ is_sparse(u.data_type) =>
          \A f \in 1..Len(u.fields) : u.fields[f].len = h.offset + h.len
    /\ ~is_sparse(u.data_type) =>
          \A i \in 1..u.types.len :
             /\ BufferValues(u.types)[i] + 1 \in 1..Len(u.fields)
             /\ DenseOffsetAt(u, i) \in
                   0..(u.fields[BufferValues(u.types)[i] + 1].len - 1)

\* C5: every array try_from_ffi returns satisfies the union layout
\* invariants; a handle that would violate one makes the import fail.
ImportedLayoutValid == out.kind = "ok" => LayoutInvariants(out.array, out.h)

Unreadable(h, index) ==
    \/ Len(h.buffers) < index + 2
    \/ ~h.buffers[index + 2].some

\* Some declared field has no child in handle h, or its child fails to import.
ChildFailure(h) ==
    \E f \in 1..h.data_type.nfields : Len(h.children) < f \/ ~h.children[f].ok

\* C9: try_from_ffi fails, and the array held is untouched, exactly when the
\* type ids cannot be read, or the type is dense and the dense offsets cannot
\* be read, or a declared field's child is missing or fails to import; for a
\* sparse type buffer 1 is never read.
ImportErrors ==
    out.kind # "none" =>
       /\ out.kind = "err" <=>
             \/ Unreadable(out.h, 0)
             \/ (~is_sparse(out.h.data_type) /\ Unreadable(out.h, 1))
             \/ ChildFailure(out.h)
       /\ is_sparse(out.h.data_type) => 1 \notin out.buffersRead
       /\ out.kind = "err" => x = out.pre

\* A sparse handle without buffer 1 has been imported successfully.
ImportErrorsWitness ==
    /\ out.kind = "ok"
    /\ is_sparse(out.h.data_type)
    /\ Unreadable(out.h, 1)

(***************************************************************************)
(* PrimitiveArray<T>: a value buffer, a validity mask (TRUE = valid) and a  *)
(* logical type.  A null slot still stores some value in the buffer.       *)
(***************************************************************************)
MaxLen == 2   \* longest primitive array handed to a kernel

\* The logical types of the modelled operands and their native types.
PrimitiveTypes == {"Int8", "Int32", "Date32", "UInt8", "UInt16", "UInt32", "UInt64"}

NativeOf(data_type) ==
    CASE data_type = "Int8" -> "i8"
      [] data_type \in {"Int32", "Date32"} -> "i32"
      [] data_type = "UInt8" -> "u8"
      [] data_type = "UInt16" -> "u16"
      [] data_type = "UInt32" -> "u32"
      [] data_type = "UInt64" -> "u64"

\* T::DATA_TYPE: the logical type a native type dispatches on.
NativeDataType(native) ==
    CASE native = "i8" -> "Int8"
      [] native = "i32" -> "Int32"
      [] native = "u8" -> "UInt8"
      [] native = "u16" -> "UInt16"
      [] native = "u32" -> "UInt32"
      [] native = "u64" -> "UInt64"

IsSigned(native) == native \in {"i8", "i32"}

\* T::MIN of the signed native types.
MinValue(native) == IF native = "i8" THEN -128 ELSE -2147483647 - 1

Abs(a) == IF a < 0 THEN -a ELSE a

\* Integer division of the machine: the quotient is truncated toward zero.
TruncDiv(a, b) ==
    IF (a >= 0) = (b > 0) THEN Abs(a) \div Abs(b) ELSE -(Abs(a) \div Abs(b))

\* `a / b` wrapping around on the overflowing pair instead of panicking.
NativeDivWrapping(native, a, b) ==
    IF b = 0 THEN [ok |-> FALSE]
    ELSE IF IsSigned(native) /\ a = MinValue(native) /\ b = -1
    THEN [ok |-> TRUE, v |-> MinValue(native)]
    ELSE [ok |-> TRUE, v |-> TruncDiv(a, b)]

\* `a / b` of a native integer type (Div::div): it panics on a zero divisor
\* and on the one overflowing pair, MIN / -1.
NativeDiv(native, a, b) ==
    IF b = 0 THEN [ok |-> FALSE]
    ELSE IF IsSigned(native) /\ a = MinValue(native) /\ b = -1 THEN [ok |-> FALSE]
    ELSE [ok |-> TRUE, v |-> TruncDiv(a, b)]

\* a.checked_div(&b) (CheckedDiv): None where `a / b` would panic.
NativeCheckedDiv(native, a, b) ==
    IF b = 0 THEN NoneV
    ELSE IF IsSigned(native) /\ a = MinValue(native) /\ b = -1 THEN NoneV
    ELSE Some(TruncDiv(a, b))

\* StrengthReducedU*::new(divisor): it panics on a zero divisor.
StrengthReducedNew(divisor) ==
    IF divisor = 0 THEN [ok |-> FALSE] ELSE [ok |-> TRUE, v |-> divisor]

\* `a / reduced_div`: the unsigned quotient by the precomputed divisor.
StrengthReducedDiv(a, reduced) == [ok |-> TRUE, v |-> a \div reduced]

(***************************************************************************)
(* The scalar functions the kernels hand to the engine, as closure records: *)
(* f names the function, the other fields are what it captured.            *)
(***************************************************************************)
\* Units per second of a time unit.
PerSecond(unit) ==
    CASE unit = "Second" -> 1
      [] unit = "Millisecond" -> 1000
      [] unit = "Microsecond" -> 1000000
      [] unit = "Nanosecond" -> 1000000000

\* Hour of day of a count of seconds since midnight or since the epoch.
HourOfSeconds(secs) == (secs % 86400) \div 3600

\* Civil year of a count of days since 1970-01-01 (proleptic Gregorian
\* calendar), by eras of 400 years starting on a 1 March.
YearOfDays(days) ==
    LET z == days + 719468
        era == z \div 146097
        doe == z - era * 146097
        yoe == (doe - doe \div 1460 + doe \div 36524 - doe \div 146096) \div 365
        doy == doe - (365 * yoe + yoe \div 4 - yoe \div 100)
        mp == (5 * doy + 2) \div 153
        month == IF mp < 10 THEN mp + 3 ELSE mp - 9
    IN yoe + era * 400 + (IF month <= 2 THEN 1 ELSE 0)

\* Floor division by a positive divisor.
FloorDiv(a, b) == a \div b

\* The conversions of temporal_conversions followed by the field accessor.
time32s_to_time_hour(v) == HourOfSeconds(v)
time32ms_to_time_hour(v) == HourOfSeconds(FloorDiv(v, 1000))
time64us_to_time_hour(v) == HourOfSeconds(FloorDiv(v, 1000000))
time64ns_to_time_hour(v) == HourOfSeconds(FloorDiv(v, 1000000000))
date32_to_datetime_hour(v) == HourOfSeconds(v * 0)
date64_to_datetime_hour(v) == HourOfSeconds(FloorDiv(v, 1000))
timestamp_to_datetime_hour(unit, v) == HourOfSeconds(FloorDiv(v, PerSecond(unit)))
date32_to_datetime_year(v) == YearOfDays(v)
date64_to_datetime_year(v) == YearOfDays(FloorDiv(v, 86400000))
timestamp_to_datetime_year(unit, v) ==
    YearOfDays(FloorDiv(FloorDiv(v, PerSecond(unit)), 86400))

\* The result of an infallible scalar function.
Returned(v) == [ok |-> TRUE, v |-> v]

\* A one-argument closure applied to an element: ok with a value, or a panic.
Apply1(op, a) ==
    CASE op.f = "div_by" -> NativeDiv(op.native, a, op.rhs)
      [] op.f = "div_by_reduced" -> StrengthReducedDiv(a, op.reduced_div)
      [] op.f = "time32s_hour" -> Returned(time32s_to_time_hour(a))
      [] op.f = "time32ms_hour" -> Returned(time32ms_to_time_hour(a))
      [] op.f = "time64us_hour" -> Returned(time64us_to_time_hour(a))
      [] op.f = "time64ns_hour" -> Returned(time64ns_to_time_hour(a))
      [] op.f = "date32_hour" -> Returned(date32_to_datetime_hour(a))
      [] op.f = "date64_hour" -> Returned(date64_to_datetime_hour(a))
      [] op.f = "timestamp_hour" -> Returned(timestamp_to_datetime_hour(op.unit, a))
      [] op.f = "date32_year" -> Returned(date32_to_datetime_year(a))
      [] op.f = "date64_year" -> Returned(date64_to_datetime_year(a))
      [] op.f = "timestamp_year" -> Returned(timestamp_to_datetime_year(op.unit, a))

\* A one-argument checked closure applied to an element: Some value or None.
ApplyChecked1(op, a) == NativeCheckedDiv(op.native, a, op.rhs)

\* A two-argument closure applied to a pair: ok with a value, or a panic.
Apply2(op, a, b) == NativeDiv(op.native, a, b)

\* A two-argument checked closure applied to a pair: Some value or None.
ApplyChecked2(op, a, b) == NativeCheckedDiv(op.native, a, b)

(***************************************************************************)
(* The kernel engine (compute::arity).  A call ends "ok" with an array,    *)
(* "err" with an error, or "panic".  `applied` counts the elements (pairs) *)
(* the scalar function was invoked on.                                     *)
(***************************************************************************)
ArrLen(a) == Len(a.values)

\* The least index of a set of indices, or 0 for the empty set.
FirstOf(S) == IF S = {} THEN 0 ELSE CHOOSE i \in S : \A j \in S : i <= j

\* unary: op on every element of the value buffer, the value stored under a
\* null slot included (no branch on validity, as in binary); validity copied.
unary(array, op, data_type) ==
    LET n == ArrLen(array)
        fb == FirstOf({i \in 1..n : ~Apply1(op, array.values[i]).ok})
    IN IF fb # 0
       THEN [kind |-> "panic", applied |-> fb]
       ELSE [kind |-> "ok", applied |-> n,
             array |-> [data_type |-> data_type,
                        values |-> [i \in 1..n |-> Apply1(op, array.values[i]).v],
                        validity |-> array.validity]]

\* unary_checked: op on every non-null element; a missing result nulls the slot.
unary_checked(array, op, data_type) ==
    LET n == ArrLen(array)
        present == [i \in 1..n |->
                       array.validity[i] /\ ApplyChecked1(op, array.values[i]).some]
    IN [kind |-> "ok",
        applied |-> Cardinality({i \in 1..n : array.validity[i]}),
        array |-> [data_type |-> data_type,
                   values |-> [i \in 1..n |-> IF present[i]
                                              THEN ApplyChecked1(op, array.values[i]).v
                                              ELSE 0],
                   validity |-> present]]

\* binary: equal lengths required; op on every pair, validities ANDed.
binary(left, right, data_type, op) ==
    IF ArrLen(left) # ArrLen(right)
    THEN [kind |-> "err", error |-> "InvalidArgumentError", applied |-> 0]
    ELSE LET n == ArrLen(left)
             fb == FirstOf({i \in 1..n : ~Apply2(op, left.values[i], right.values[i]).ok})
         IN IF fb # 0
            THEN [kind |-> "panic", applied |-> fb]
            ELSE [kind |-> "ok", applied |-> n,
                  array |-> [data_type |-> data_type,
                             values |-> [i \in 1..n |->
                                            Apply2(op, left.values[i], right.values[i]).v],
                             validity |-> [i \in 1..n |->
                                              left.validity[i] /\ right.validity[i]]]]

\* binary_checked: equal lengths required; op on every pair; a slot is valid
\* when both inputs are valid and the result is present.
binary_checked(left, right, data_type, op) ==
    IF ArrLen(left) # ArrLen(right)
    THEN [kind |-> "err", error |-> "InvalidArgumentError", applied |-> 0]
    ELSE LET n == ArrLen(left)
             res == [i \in 1..n |-> ApplyChecked2(op, left.values[i], right.values[i])]
         IN [kind |-> "ok", applied |-> n,
             array |-> [data_type |-> data_type,
                        values |-> [i \in 1..n |-> IF res[i].some THEN res[i].v ELSE 0],
                        validity |-> [i \in 1..n |->
                                         left.validity[i] /\ right.validity[i] /\ res[i].some]]]

(***************************************************************************)
(* The division kernels.                                                   *)
(***************************************************************************)
\* div without the comparison of the logical types.
div_unchecked_types(l, r) ==
    binary(l, r, l.data_type, [f |-> "div", native |-> NativeOf(l.data_type)])

div(l, r) ==
    IF l.data_type # r.data_type
    THEN [kind |-> "err", error |-> "InvalidArgumentError", applied |-> 0]
    ELSE binary(l, r, l.data_type, [f |-> "div", native |-> NativeOf(l.data_type)])

\* checked_div handing the unchecked division to the unchecked engine.
checked_div_unchecked(l, r) ==
    IF l.data_type # r.data_type
    THEN [kind |-> "err", error |-> "InvalidArgumentError", applied |-> 0]
    ELSE binary(l, r, l.data_type, [f |-> "div", native |-> NativeOf(l.data_type)])

checked_div(l, r) ==
    IF l.data_type # r.data_type
    THEN [kind |-> "err", error |-> "InvalidArgumentError", applied |-> 0]
    ELSE binary_checked(l, r, l.data_type,
                        [f |-> "checked_div", native |-> NativeOf(l.data_type)])

div_scalar(l, rhs) ==
    LET native == NativeOf(l.data_type)
    IN IF NativeDataType(native) \in {"UInt64", "UInt32", "UInt16", "UInt8"}
       THEN LET reduced_div == StrengthReducedNew(rhs)
            IN IF ~reduced_div.ok THEN [kind |-> "panic", applied |-> 0]
               ELSE unary(l, [f |-> "div_by_reduced", reduced_div |-> reduced_div.v],
                          l.data_type)
       ELSE unary(l, [f |-> "div_by", native |-> native, rhs |-> rhs], l.data_type)

checked_div_scalar(l, rhs) ==
    unary_checked(l, [f |-> "checked_div_by", native |-> NativeOf(l.data_type), rhs |-> rhs],
                  l.data_type)

(***************************************************************************)
(* The operands and the division state machine.                            *)
(***************************************************************************)
\* The sampled values of each native type, chosen to hold the type's minimum,
\* -1, 0 and pairs whose quotient is inexact.
Values(native) ==
    CASE native = "i8" -> {-128, -1, 0, 2}
      [] native = "i32" -> {-7, 0, 2}
      [] OTHER -> {0, 2, 7}

\* The values a value buffer may hold under a null slot.
NullValues(native) == IF native = "i8" THEN {0, 2} ELSE {0}

Slots(native) ==
    {<<v, TRUE>> : v \in Values(native)} \cup {<<v, FALSE>> : v \in NullValues(native)}

ArraysOf(data_type) ==
    UNION {{[data_type |-> data_type,
             values |-> [i \in 1..n |-> s[i][1]],
             validity |-> [i \in 1..n |-> s[i][2]]] :
               s \in [1..n -> Slots(NativeOf(data_type))]} : n \in 0..MaxLen}

\* The all-valid array of s repeated n times.
Broadcast(data_type, s, n) ==
    [data_type |-> data_type, values |-> [i \in 1..n |-> s], validity |-> [i \in 1..n |-> TRUE]]

InitDiv ==
    /\ \E dt \in PrimitiveTypes :
          /\ lhs \in ArraysOf(dt)
          /\ \/ \E dt2 \in {d \in PrimitiveTypes : NativeOf(d) = NativeOf(dt)} :
                   \E a \in ArraysOf(dt2) : arg = [kind |-> "array", v |-> a]
             \/ \E s \in Values(NativeOf(dt)) : arg = [kind |-> "scalar", v |-> s]
    /\ dres = [kind |-> "none", op |-> "none"]
    /\ IdleUnion
    /\ IdleTemporal

Div ==
    /\ dres.kind = "none" /\ arg.kind = "array"
    /\ dres' = div(lhs, arg.v) @@ [op |-> "div"]
    /\ UNCHANGED <<lhs, arg, unionVars, temporalVars>>

CheckedDiv ==
    /\ dres.kind = "none" /\ arg.kind = "array"
    /\ dres' = checked_div(lhs, arg.v) @@ [op |-> "checked_div"]
    /\ UNCHANGED <<lhs, arg, unionVars, temporalVars>>

DivScalar ==
    /\ dres.kind = "none" /\ arg.kind = "scalar"
    /\ dres' = div_scalar(lhs, arg.v) @@ [op |-> "div_scalar"]
    /\ UNCHANGED <<lhs, arg, unionVars, temporalVars>>

CheckedDivScalar ==
    /\ dres.kind = "none" /\ arg.kind = "scalar"
    /\ dres' = checked_div_scalar(lhs, arg.v) @@ [op |-> "checked_div_scalar"]
    /\ UNCHANGED <<lhs, arg, unionVars, temporalVars>>

NextDiv == Div \/ CheckedDiv \/ DivScalar \/ CheckedDivScalar

SpecDiv == InitDiv /\ [][NextDiv]_vars

(***************************************************************************)
(* Properties of the division kernels.                                     *)
(***************************************************************************)
\* T::MAX of the native types whose quotient can overflow.
MaxValue(native) == IF native = "i8" THEN 127 ELSE 2147483647

\* q is the quotient of a by b truncated toward zero: the remainder is
\* smaller than the divisor and has the sign of the dividend.
IsQuotient(a, b, q) ==
    LET rem == a - q * b
    IN /\ Abs(rem) < Abs(b)
       /\ rem = 0 \/ (rem > 0) = (a > 0)

\* The exact quotient of a by b does not fit the native type.
QuotientOverflows(native, a, b) ==
    IsSigned(native) /\ b = -1 /\ -a > MaxValue(native)

\* Equality of primitive arrays: logical type, length, validity and the
\* values of the valid slots.
ArrayEq(p, q) ==
    /\ p.data_type = q.data_type
    /\ ArrLen(p) = ArrLen(q)
    /\ p.validity = q.validity
    /\ \A i \in 1..ArrLen(p) : p.validity[i] => p.values[i] = q.values[i]

SameOutcome(r1, r2) ==
    /\ r1.kind = r2.kind
    /\ r1.kind = "ok" => ArrayEq(r1.array, r2.array)

SameShape == lhs.data_type = arg.v.data_type /\ ArrLen(lhs) = ArrLen(arg.v)

\* C2: on equal-length, equal-type operands checked_div returns an array of
\* that length whose slot i is null exactly when a[i] is null, b[i] is null,
\* b[i] is zero or a[i] / b[i] overflows, and holds a[i] / b[i] otherwise;
\* checked_div never panics.
CheckedDivLaw ==
    dres.op = "checked_div" =>
       /\ dres.kind # "panic"
       /\ SameShape =>
             /\ dres.kind = "ok"
             /\ dres.array.data_type = lhs.data_type
             /\ ArrLen(dres.array) = ArrLen(lhs)
             /\ Len(dres.array.validity) = ArrLen(lhs)
             /\ \A i \in 1..ArrLen(lhs) :
                   LET a == lhs.values[i]
                       b == arg.v.values[i]
                       null == \/ ~lhs.validity[i]
                               \/ ~arg.v.validity[i]
                               \/ b = 0
                               \/ QuotientOverflows(NativeOf(lhs.data_type), a, b)
                   IN /\ ~dres.array.validity[i] <=> null
                      /\ ~null => IsQuotient(a, b, dres.array.values[i])

\* checked_div has nulled one slot for an overflowing pair and another for a
\* zero divisor or kept an inexact quotient.
CheckedDivWitness ==
    /\ dres.op = "checked_div" /\ dres.kind = "ok" /\ SameShape
    /\ ArrLen(lhs) = 2
    /\ lhs.validity = <<TRUE, TRUE>> /\ arg.v.validity = <<TRUE, TRUE>>
    /\ lhs.values = <<-128, -1>> /\ arg.v.values = <<-1, 2>>

\* C3: div_scalar and checked_div_scalar give the outcome of div and
\* checked_div against the all-valid array of the scalar repeated a.len()
\* times, whatever the array, the scalar and the element type.
ScalarBroadcastLaw ==
    /\ dres.op = "div_scalar" =>
          SameOutcome(dres, div(lhs, Broadcast(lhs.data_type, arg.v, ArrLen(lhs))))
    /\ dres.op = "checked_div_scalar" =>
          SameOutcome(dres, checked_div(lhs, Broadcast(lhs.data_type, arg.v, ArrLen(lhs))))

\* C4: div and checked_div on operands of different lengths or logical types
\* end in an argument error, with no pair divided and no array produced, even
\* when the right operand holds a zero.
ArgumentErrors ==
    (dres.op \in {"div", "checked_div"} /\ ~SameShape) =>
       /\ dres.kind = "err"
       /\ dres.error = "InvalidArgumentError"
       /\ dres.applied = 0
       /\ "array" \notin DOMAIN dres

\* div was called on operands of different logical types and equal length
\* whose right operand holds a valid zero.
ArgumentErrorsWitness ==
    /\ dres.op = "div"
    /\ lhs.data_type # arg.v.data_type
    /\ ArrLen(lhs) = ArrLen(arg.v)
    /\ \E i \in 1..ArrLen(arg.v) : arg.v.validity[i] /\ arg.v.values[i] = 0

\* Slot i of the operands of div holds a zero divisor or an overflowing pair.
FaultyPair(i) ==
    \/ arg.v.values[i] = 0
    \/ QuotientOverflows(NativeOf(lhs.data_type), lhs.values[i], arg.v.values[i])

\* C7: on equal-length, equal-type integer operands div panics when a valid
\* pair has a zero divisor or overflows, never returns an array for operands
\* holding such a pair, and on operands without nulls and without such a pair
\* returns the all-valid array of the quotients a[i] / b[i].
DivFaults ==
    (dres.op = "div" /\ SameShape) =>
       /\ (\E i \in 1..ArrLen(lhs) :
              lhs.validity[i] /\ arg.v.validity[i] /\ FaultyPair(i))
             => dres.kind = "panic"
       /\ dres.kind = "ok" => \A i \in 1..ArrLen(lhs) : ~FaultyPair(i)
       /\ (\A i \in 1..ArrLen(lhs) :
              lhs.validity[i] /\ arg.v.validity[i] /\ ~FaultyPair(i))
             => /\ dres.kind = "ok"
                /\ dres.array.data_type = lhs.data_type
                /\ ArrLen(dres.array) = ArrLen(lhs)
                /\ \A i \in 1..ArrLen(lhs) :
                      /\ dres.array.validity[i]
                      /\ IsQuotient(lhs.values[i], arg.v.values[i], dres.array.values[i])

\* div has panicked on i8 operands whose only faulty pair is -128 / -1.
DivFaultsWitness ==
    /\ dres.op = "div" /\ SameShape /\ dres.kind = "panic"
    /\ lhs.data_type = "Int8"
    /\ \A i \in 1..ArrLen(lhs) : arg.v.values[i] # 0
    /\ \E i \in 1..ArrLen(lhs) :
          lhs.validity[i] /\ arg.v.validity[i]
          /\ lhs.values[i] = -128 /\ arg.v.values[i] = -1

\* C8: with a zero scalar, div_scalar panics, as div does against the
\* broadcast of zero, whatever the array (empty ones included), and
\* checked_div_scalar returns a.len() null slots without panicking.
ZeroScalarLaw ==
    /\ (dres.op = "div_scalar" /\ arg.v = 0) =>
          /\ dres.kind = "panic"
          /\ div(lhs, Broadcast(lhs.data_type, 0, ArrLen(lhs))).kind = "panic"
    /\ (dres.op = "checked_div_scalar" /\ arg.v = 0) =>
          /\ dres.kind = "ok"
          /\ ArrLen(dres.array) = ArrLen(lhs)
          /\ \A i \in 1..ArrLen(lhs) : ~dres.array.validity[i]

(***************************************************************************)
(* Temporal extraction kernels (compute::temporal).                        *)
(***************************************************************************)
MaxTemporalLen == 2   \* longest array handed to hour / year

TimeUnits == {"Second", "Millisecond", "Microsecond", "Nanosecond"}

\* The logical types of the modelled temporal operands: the temporal types at
\* every unit, timestamps with and without a timezone, and two plain integers.
LogicalTypes ==
    {[name |-> n] : n \in {"Int8", "Int32", "Date32", "Date64"}}
    \cup {[name |-> n, unit |-> u] : <<n, u>> \in {"Time32", "Time64"} \X TimeUnits}
    \cup {[name |-> "Timestamp", unit |-> u, tz |-> z] :
             <<u, z>> \in TimeUnits \X {NoneV, Some("UTC")}}

NotYetImplemented(dt) == [kind |-> "err", error |-> "NotYetImplemented", names |-> dt]

hour(array) ==
    LET dt == array.data_type
    IN CASE dt.name = "Time32" /\ dt.unit = "Second" ->
              unary(array, [f |-> "time32s_hour"], "UInt32")
         [] dt.name = "Time32" /\ dt.unit = "Microsecond" ->
              unary(array, [f |-> "time32ms_hour"], "UInt32")
         [] dt.name = "Time64" /\ dt.unit = "Microsecond" ->
              unary(array, [f |-> "time64us_hour"], "UInt32")
         [] dt.name = "Time64" /\ dt.unit = "Nanosecond" ->
              unary(array, [f |-> "time64ns_hour"], "UInt32")
         [] dt.name = "Date32" ->
              unary(array, [f |-> "date32_hour"], "UInt32")
         [] dt.name = "Date64" ->
              unary(array, [f |-> "date64_hour"], "UInt32")
         [] dt.name = "Timestamp" /\ ~dt.tz.some ->
              unary(array, [f |-> "timestamp_hour", unit |-> dt.unit], "UInt32")
         [] OTHER -> NotYetImplemented(dt)

\* can_hour with the Date64 pattern left out.
can_hour_without_date64(data_type) ==
    \/ data_type.name = "Time32" /\ data_type.unit = "Second"
    \/ data_type.name = "Time32" /\ data_type.unit = "Microsecond"
    \/ data_type.name = "Time64" /\ data_type.unit = "Microsecond"
    \/ data_type.name = "Time64" /\ data_type.unit = "Nanosecond"
    \/ data_type.name = "Date32"
    \/ data_type.name = "Timestamp" /\ ~data_type.tz.some

can_hour(data_type) ==
    \/ data_type.name = "Time32" /\ data_type.unit = "Second"
    \/ data_type.name = "Time32" /\ data_type.unit = "Microsecond"
    \/ data_type.name = "Time64" /\ data_type.unit = "Microsecond"
    \/ data_type.name = "Time64" /\ data_type.unit = "Nanosecond"
    \/ data_type.name = "Date32"
    \/ data_type.name = "Date64"
    \/ data_type.name = "Timestamp" /\ ~data_type.tz.some

year(array) ==
    LET dt == array.data_type
    IN CASE dt.name = "Date32" ->
              unary(array, [f |-> "date32_year"], "Int32")
         [] dt.name = "Date64" ->
              unary(array, [f |-> "date64_year"], "Int32")
         [] dt.name = "Timestamp" /\ ~dt.tz.some ->
              unary(array, [f |-> "timestamp_year", unit |-> dt.unit], "Int32")
         [] OTHER -> NotYetImplemented(dt)

can_year(data_type) ==
    \/ data_type.name = "Date32"
    \/ data_type.name = "Date64"
    \/ data_type.name = "Timestamp" /\ ~data_type.tz.some

\* The sampled raw values of a temporal array: midnight, 01:01:01 in seconds,
\* the last second of a day, and one hour in milliseconds.
RawValues == {0, 3661, 86399, 3600000}

TemporalArrays ==
    UNION {{[data_type |-> dt, values |-> vs, validity |-> bs] :
              <<vs, bs>> \in [1..n -> RawValues] \X [1..n -> BOOLEAN]} :
           <<dt, n>> \in LogicalTypes \X (0..MaxTemporalLen)}

InitTemporal ==
    /\ tarr \in TemporalArrays
    /\ tres = [kind |-> "none", op |-> "none"]
    /\ IdleUnion
    /\ IdleDiv

Hour ==
    /\ tres.kind = "none"
    /\ tres' = hour(tarr) @@ [op |-> "hour"]
    /\ UNCHANGED <<tarr, unionVars, divVars>>

Year ==
    /\ tres.kind = "none"
    /\ tres' = year(tarr) @@ [op |-> "year"]
    /\ UNCHANGED <<tarr, unionVars, divVars>>

NextTemporal == Hour \/ Year

SpecTemporal == InitTemporal /\ [][NextTemporal]_vars

(***************************************************************************)
(* Properties of the temporal kernels.                                     *)
(***************************************************************************)
\* The call recorded in tres failed with a not-yet-implemented error that
\* names the input's logical type and carries no array.
Unsupported ==
    /\ tres.kind = "err"
    /\ tres.error = "NotYetImplemented"
    /\ tres.names = tarr.data_type
    /\ "array" \notin DOMAIN tres

\* C10: hour succeeds exactly on the logical types can_hour accepts and year
\* exactly on those can_year accepts; otherwise the call fails with a
\* not-yet-implemented error naming the type and produces no array.
\* can_year(Date32) holds, can_year(Int8) does not, and a timestamp with a
\* timezone is accepted by neither predicate.
SupportMatchesPredicate ==
    /\ tres.op = "hour" =>
          /\ tres.kind = "ok" <=> can_hour(tarr.data_type)
          /\ ~can_hour(tarr.data_type) => Unsupported
    /\ tres.op = "year" =>
          /\ tres.kind = "ok" <=> can_year(tarr.data_type)
          /\ ~can_year(tarr.data_type) => Unsupported
    /\ can_year([name |-> "Date32"])
    /\ ~can_year([name |-> "Int8"])
    /\ \A dt \in LogicalTypes :
          (dt.name = "Timestamp" /\ dt.tz.some) => (~can_hour(dt) /\ ~can_year(dt))

\* year has been refused on a non-empty timestamp array with a timezone.
SupportMatchesPredicateWitness ==
    /\ tres.op = "year" /\ tres.kind = "err"
    /\ tarr.data_type.name = "Timestamp" /\ tarr.data_type.tz.some
    /\ Len(tarr.values) > 0

\* The hour of day of a raw value read in the unit its logical type declares:
\* the h in 0..23 whose hour contains the value's second of the day.  A
\* Date32 value is a whole number of days, so its time of day is midnight.
IsDeclaredHour(dt, raw, h) ==
    /\ h \in 0..23
    /\ IF dt.name = "Date32"
       THEN h = 0
       ELSE LET per == IF dt.name = "Date64" THEN 1000 ELSE PerSecond(dt.unit)
                second_of_day == (raw \div per) % 86400
            IN h * 3600 <= second_of_day /\ second_of_day < (h + 1) * 3600

\* The array returned by hour has the type UInt32, the length and validity of
\* the input, and in every slot the declared-unit hour of the input's value.
HourArrayDeclared ==
    /\ tres.array.data_type = "UInt32"
    /\ Len(tres.array.values) = Len(tarr.values)
    /\ tres.array.validity = tarr.validity
    /\ \A i \in 1..Len(tarr.values) :
          IsDeclaredHour(tarr.data_type, tarr.values[i], tres.array.values[i])

\* C11: on every logical type hour supports, the result is a UInt32 array of
\* the input's length and validity whose values are the hour of day, in 0..23,
\* of the raw values read in the unit the logical type declares (seconds for
\* Time32(Second), microseconds for Time32(Microsecond) and
\* Time64(Microsecond), nanoseconds for Time64(Nanosecond), days for Date32,
\* milliseconds for Date64, the timestamp's unit for Timestamp); the
\* Time32(Second) value 3661 yields 1.
HourInDeclaredUnit ==
    /\ (tres.op = "hour" /\ tres.kind = "ok") => HourArrayDeclared
    /\ (tres.op = "hour" /\ can_hour(tarr.data_type)) => tres.kind = "ok"
    /\ (/\ tres.op = "hour"
        /\ tarr.data_type = [name |-> "Time32", unit |-> "Second"]
        /\ Len(tarr.values) > 0 /\ tarr.values[1] = 3661)
       => tres.array.values[1] = 1

\* The same law on every supported logical type other than
\* Time32(Microsecond).
HourInDeclaredUnitElsewhere ==
    (/\ tres.op = "hour" /\ tres.kind = "ok"
     /\ tarr.data_type # [name |-> "Time32", unit |-> "Microsecond"])
    => HourArrayDeclared

\* hour has returned on a Time32(Second) array holding 3661 and a null slot.
HourInDeclaredUnitElsewhereWitness ==
    /\ tres.op = "hour" /\ tres.kind = "ok"
    /\ tarr.data_type = [name |-> "Time32", unit |-> "Second"]
    /\ \E i \in 1..Len(tarr.values) : tarr.values[i] = 3661 /\ tres.array.values[i] = 1
    /\ \E i \in 1..Len(tarr.values) : ~tarr.validity[i]

====
